---- MODULE Spec2Model ----
(***************************************************************************)
(* A model of package sx (github.com/hlandau/sx): the incremental          *)
(* S-expression parser (Parser.Write / Parser.Close / Format.Parse), the   *)
(* canonical serializer (Format.String / writeList) and the base64         *)
(* adapters of b64.go.                                                     *)
(*                                                                         *)
(* Conventions.                                                            *)
(*  - A Go string or []byte is a sequence of octets 0..255.                *)
(*  - A rune is an integer.                                                *)
(*  - A uint64 is a sequence of four 16-bit limbs, least significant       *)
(*    first, so that arithmetic modulo 2^64 is exact (TLC's own integers   *)
(*    are 32 bits wide).  int and int64 values are the same 64 bits read   *)
(*    as two's complement.  Go's int is taken to be 64 bits wide; on a     *)
(*    32-bit build the values pushed are the same (sx.go:339-340).         *)
(*  - A value of the tree ([]interface{}) is a record [t, v, c]: t is the  *)
(*    dynamic type, v the octets (string, []byte) or limbs (integers), c   *)
(*    the children of a list.                                              *)
(***************************************************************************)
EXTENDS Integers, Sequences, FiniteSets, TLC

VARIABLES
  p,      \* the Parser under use (all fields of the struct)
  input,  \* the octets the caller is going to feed
  rest,   \* the part of input not yet written
  call,   \* the last call made on the interface, with its argument
  ret,    \* what that call returned
  tree,   \* the []interface{} handed to Format.String
  out,    \* what Format.String returned
  back,   \* what Format.Parse returned for the serialized string
  found,  \* what the last query (Q1bhy, Q1bhyt, Q1bsyt) returned
  loop    \* the call of Parser.write in progress: its buffer, cursor and rune

vars == <<p, input, rest, call, ret, tree, out, back, found, loop>>

----------------------------------------------------------------------------
(* Octets and runes                                                        *)

\* The runes the source names as character literals.
Chr ==
  [ nul |-> 0, tab |-> 9, lf |-> 10, cr |-> 13, sp |-> 32, quote |-> 34,
    hash |-> 35, lparen |-> 40, rparen |-> 41, star |-> 42, plus |-> 43,
    minus |-> 45, dot |-> 46, slash |-> 47, d0 |-> 48, d7 |-> 55, d9 |-> 57,
    colon |-> 58, eq |-> 61, uA |-> 65, uZ |-> 90, bslash |-> 92,
    under |-> 95, la |-> 97, lb |-> 98, lq |-> 113, ly |-> 121, lf_ |-> 102,
    ln |-> 110, lr |-> 114,
    lt |-> 116, lv |-> 118, lx |-> 120, lz |-> 122, lbrace |-> 123,
    pipe |-> 124, rbrace |-> 125 ]

Min(a, b) == IF a < b THEN a ELSE b

\* b[from:] with a 0-based Go index.
SliceFrom(b, from) == SubSeq(b, from + 1, Len(b))

\* b[from:to] with 0-based Go indices.
Slice(b, from, to) == SubSeq(b, from + 1, to)

\* bytes.IndexByte: the 0-based index of the first c in b, or -1.
IndexByte(b, c) ==
  IF \E k \in 1..Len(b) : b[k] = c
  THEN (CHOOSE k \in 1..Len(b) : b[k] = c /\ \A j \in 1..(k - 1) : b[j] # c) - 1
  ELSE -1

RECURSIVE BitOr(_, _)
\* x | y on non-negative integers.
BitOr(x, y) ==
  IF x = 0 THEN y
  ELSE IF y = 0 THEN x
  ELSE (IF (x % 2) + (y % 2) > 0 THEN 1 ELSE 0) + 2 * BitOr(x \div 2, y \div 2)

----------------------------------------------------------------------------
(* uint64 / int64 arithmetic on four 16-bit limbs                          *)

\* One limb holds 16 bits.
Limb == 2 ^ 16

U64Zero == <<0, 0, 0, 0>>

\* uint64(n) for a small non-negative n (a length, a digit, a nibble).
U64(n) == <<n % Limb, n \div Limb, 0, 0>>

\* x*10 + d modulo 2^64 (sx.go:316).
MulAdd10(x, d) ==
  LET t1 == x[1] * 10 + d
      t2 == x[2] * 10 + (t1 \div Limb)
      t3 == x[3] * 10 + (t2 \div Limb)
      t4 == x[4] * 10 + (t3 \div Limb)
  IN  <<t1 % Limb, t2 % Limb, t3 % Limb, t4 % Limb>>

\* x <= y as unsigned 64-bit integers.
U64Leq(x, y) ==
  \/ x = y
  \/ \E k \in 1..4 : x[k] < y[k] /\ \A j \in (k + 1)..4 : x[j] = y[j]

\* x + 1 modulo 2^64.
U64Inc(x) ==
  LET t1 == x[1] + 1
      t2 == x[2] + (t1 \div Limb)
      t3 == x[3] + (t2 \div Limb)
      t4 == x[4] + (t3 \div Limb)
  IN  <<t1 % Limb, t2 % Limb, t3 % Limb, t4 % Limb>>

\* -x modulo 2^64: the negation of int(x) or int64(x), which wraps.
U64Neg(x) == U64Inc(<<Limb - 1 - x[1], Limb - 1 - x[2], Limb - 1 - x[3], Limb - 1 - x[4]>>)

\* x - 1 modulo 2^64 (p.xL--).
U64Dec(x) == U64Neg(U64Inc(U64Neg(x)))

\* The sign bit of the 64 bits read as int64.
I64Negative(x) == x[4] >= Limb \div 2

\* x divided by 10: quotient and remainder.
U64DivMod10(x) ==
  LET q4 == x[4] \div 10
      r4 == x[4] % 10
      q3 == (r4 * Limb + x[3]) \div 10
      r3 == (r4 * Limb + x[3]) % 10
      q2 == (r3 * Limb + x[2]) \div 10
      r2 == (r3 * Limb + x[2]) % 10
      q1 == (r2 * Limb + x[1]) \div 10
      r1 == (r2 * Limb + x[1]) % 10
  IN  [q |-> <<q1, q2, q3, q4>>, r |-> r1]

RECURSIVE U64Digits(_)
\* The decimal digits of x > 0 as octets, most significant first.
U64Digits(x) ==
  IF x = U64Zero THEN <<>>
  ELSE LET dm == U64DivMod10(x) IN Append(U64Digits(dm.q), Chr.d0 + dm.r)

\* strconv.FormatUint(x, 10).
FormatUint(x) == IF x = U64Zero THEN <<Chr.d0>> ELSE U64Digits(x)

\* strconv.FormatInt(x, 10).
FormatInt(x) ==
  IF I64Negative(x) THEN <<Chr.minus>> \o FormatUint(U64Neg(x)) ELSE FormatUint(x)

----------------------------------------------------------------------------
(* unicode/utf8, as the parser uses it                                     *)

RuneError == [r |-> 65533, sz |-> 1]

IsCont(b, k) == Len(b) >= k /\ b[k] >= 128 /\ b[k] <= 191

\* utf8.DecodeRune(b) for a non-empty b: the rune and its width in octets.
\* A malformed or truncated sequence decodes to U+FFFD with width 1.
DecodeRune(b) ==
  LET b0 == b[1] IN
  IF b0 < 128 THEN [r |-> b0, sz |-> 1]
  ELSE IF b0 >= 194 /\ b0 <= 223 THEN
    IF IsCont(b, 2) THEN [r |-> (b0 - 192) * 64 + (b[2] - 128), sz |-> 2]
    ELSE RuneError
  ELSE IF b0 >= 224 /\ b0 <= 239 THEN
    IF /\ IsCont(b, 2) /\ IsCont(b, 3)
       /\ (b0 = 224 => b[2] >= 160)
       /\ (b0 = 237 => b[2] <= 159)
    THEN [r |-> (b0 - 224) * 4096 + (b[2] - 128) * 64 + (b[3] - 128), sz |-> 3]
    ELSE RuneError
  ELSE IF b0 >= 240 /\ b0 <= 244 THEN
    IF /\ IsCont(b, 2) /\ IsCont(b, 3) /\ IsCont(b, 4)
       /\ (b0 = 240 => b[2] >= 144)
       /\ (b0 = 244 => b[2] <= 143)
    THEN [r |-> (b0 - 240) * 262144 + (b[2] - 128) * 4096
                 + (b[3] - 128) * 64 + (b[4] - 128), sz |-> 4]
    ELSE RuneError
  ELSE RuneError

\* string(r): the UTF-8 encoding of rune r (U+FFFD for a surrogate or a
\* value outside Unicode).
RuneString(r) ==
  IF r < 0 \/ r > 1114111 \/ (r >= 55296 /\ r <= 57343) THEN <<239, 191, 189>>
  ELSE IF r < 128 THEN <<r>>
  ELSE IF r < 2048 THEN <<192 + (r \div 64), 128 + (r % 64)>>
  ELSE IF r < 65536 THEN
    <<224 + (r \div 4096), 128 + ((r \div 64) % 64), 128 + (r % 64)>>
  ELSE <<240 + (r \div 262144), 128 + ((r \div 4096) % 64),
         128 + ((r \div 64) % 64), 128 + (r % 64)>>

----------------------------------------------------------------------------
(* Errors                                                                  *)

Nil == [e |-> "nil", r |-> 0]
ErrDepthLimitExceeded == [e |-> "list depth limit exceeded", r |-> 0]
ErrListEnd == [e |-> "attempted to close a list while not in a list", r |-> 0]
ErrUnsupportedType == [e |-> "unsupported SX type", r |-> 0]
\* &err{r}: "invalid token: unexpected character r".
InvalidToken(r) == [e |-> "invalid token", r |-> r]
\* Errors of the standard library that reach the caller through io.Copy.
ErrUnexpectedEOF == [e |-> "unexpected EOF", r |-> 0]
CorruptInputError == [e |-> "illegal base64 data", r |-> 0]
ErrShortWrite == [e |-> "short write", r |-> 0]
EOF == [e |-> "EOF", r |-> 0]
\* ioutil.ReadAll on the nil io.Reader p.b64dec: a run-time panic.
NilDereference == [e |-> "panic: nil pointer dereference", r |-> 0]

----------------------------------------------------------------------------
(* b64.go: the whitespace filter and the base64 decoders                   *)

IsSpace(r) == r = Chr.sp \/ r = Chr.tab \/ r = Chr.cr \/ r = Chr.lf

\* filteringReader.Read with the tab left out of its test.
filteringReaderKeepsTab(b) ==
  SelectSeq(b, LAMBDA c : ~(c = Chr.sp \/ c = Chr.cr \/ c = Chr.lf))

\* filteringReader.Read, over the whole of one reader: the octets of b that
\* are not ' ', '\t', '\r' or '\n', in order.
filteringReader(b) == SelectSeq(b, LAMBDA c : ~IsSpace(c))

\* The value of a character of base64.StdEncoding, or -1.
B64Val(c) ==
  IF c >= Chr.uA /\ c <= Chr.uZ THEN c - Chr.uA
  ELSE IF c >= Chr.la /\ c <= Chr.lz THEN c - Chr.la + 26
  ELSE IF c >= Chr.d0 /\ c <= Chr.d9 THEN c - Chr.d0 + 52
  ELSE IF c = Chr.plus THEN 62
  ELSE IF c = Chr.slash THEN 63
  ELSE -1

\* The octets of one quantum of n (2..4) characters with values q.
QuantumBytes(q, n) ==
  LET v == ((q[1] * 64 + q[2]) * 64 + q[3]) * 64 + q[4]
  IN  SubSeq(<<v \div 65536, (v \div 256) % 256, v % 256>>, 1, n - 1)

\* Encoding.Decode on one quantum of four characters, more being the
\* characters that follow it: the octets, whether padding ended the data,
\* and the error.
DecodeQuantum(q, more) ==
  LET v(k) == IF B64Val(q[k]) < 0 THEN 0 ELSE B64Val(q[k])
      vals == <<v(1), v(2), v(3), v(4)>>
      bad(k) == B64Val(q[k]) < 0
      trailing == IF more THEN CorruptInputError ELSE Nil
  IN  IF bad(1) \/ bad(2) THEN [out |-> <<>>, err |-> CorruptInputError]
      ELSE IF bad(3) THEN
        IF q[3] = Chr.eq /\ q[4] = Chr.eq
        THEN [out |-> QuantumBytes(<<vals[1], vals[2], 0, 0>>, 2), err |-> trailing]
        ELSE [out |-> <<>>, err |-> CorruptInputError]
      ELSE IF bad(4) THEN
        IF q[4] = Chr.eq
        THEN [out |-> QuantumBytes(<<vals[1], vals[2], vals[3], 0>>, 3), err |-> trailing]
        ELSE [out |-> <<>>, err |-> CorruptInputError]
      ELSE [out |-> QuantumBytes(vals, 4), err |-> Nil]

DecodeAppend(l, h) == [out |-> l.out \o h.out, err |-> h.err]

RECURSIVE B64DecodeQuanta(_, _, _)
RECURSIVE DecodeJoin(_, _, _, _)
\* Encoding.Decode on quanta lo..hi of src (split in halves, so that the depth
\* of the evaluation grows with the logarithm of the length): the octets
\* decoded before the first error, and that error.
B64DecodeQuanta(src, lo, hi) ==
  IF lo > hi THEN [out |-> <<>>, err |-> Nil]
  ELSE IF lo = hi THEN DecodeQuantum(SubSeq(src, 4 * lo - 3, 4 * lo), Len(src) > 4 * lo)
  ELSE DecodeJoin(B64DecodeQuanta(src, lo, (lo + hi) \div 2), src,
                  ((lo + hi) \div 2) + 1, hi)

\* The quanta after a first half l that decoded without error.
DecodeJoin(l, src, lo, hi) ==
  IF l.err # Nil THEN l ELSE DecodeAppend(l, B64DecodeQuanta(src, lo, hi))


\* Encoding.Decode on src, whose length is a multiple of four.
B64Decode(src) == B64DecodeQuanta(src, 1, Len(src) \div 4)

\* Reading a fresh base64.NewDecoder(StdEncoding, &filteringReader{...}) to
\* its first error, the reader holding b (shorter than the decoder's 1024
\* octet buffer): everything decoded, and the error the decoder keeps from
\* then on.  Whole quanta are decoded; one to three characters left over at
\* the end of the reader are an unexpected EOF.
StreamEnd(d, left) ==
  IF d.err # Nil THEN d
  ELSE IF left > 0 THEN [out |-> d.out, err |-> ErrUnexpectedEOF]
  ELSE [out |-> d.out, err |-> EOF]

DecodeFiltered(src) ==
  StreamEnd(B64Decode(SubSeq(src, 1, (Len(src) \div 4) * 4)), Len(src) % 4)

DecodeStream(b) == DecodeFiltered(filteringReader(b))

----------------------------------------------------------------------------
(* Values of the tree: the dynamic types of interface{} the package uses   *)

VString(s) == [t |-> "string", v |-> s, c |-> <<>>]
VBytes(b) == [t |-> "[]byte", v |-> b, c |-> <<>>]
VInt(x) == [t |-> "int", v |-> x, c |-> <<>>]
VInt64(x) == [t |-> "int64", v |-> x, c |-> <<>>]
VUint64(x) == [t |-> "uint64", v |-> x, c |-> <<>>]
VList(xs) == [t |-> "[]interface{}", v |-> <<>>, c |-> xs]
\* A value of any other dynamic type (a float64, a bool, ...).
VOther == [t |-> "float64", v |-> <<>>, c |-> <<>>]

----------------------------------------------------------------------------
(* Format                                                                  *)

Csexp ==
  [ name |-> "Csexp",
    allowQuotedString |-> TRUE, allowIntegers |-> TRUE, allowLists |-> TRUE,
    allowVerbatimBinaryString |-> TRUE, allowBase64BinaryString |-> TRUE,
    allowVerbatimBase64BinaryString |-> TRUE, allowTokens |-> TRUE,
    allowHexBinaryString |-> TRUE, maxListDepth |-> 255,
    unicodeStream |-> FALSE ]

SX ==
  [ name |-> "SX",
    allowQuotedString |-> TRUE, allowIntegers |-> TRUE, allowLists |-> TRUE,
    allowVerbatimBinaryString |-> TRUE, allowBase64BinaryString |-> TRUE,
    allowVerbatimBase64BinaryString |-> TRUE, allowTokens |-> TRUE,
    allowHexBinaryString |-> TRUE, maxListDepth |-> 255,
    unicodeStream |-> TRUE ]

Formats == {Csexp, SX}

----------------------------------------------------------------------------
(* Parser                                                                  *)

\* p.init() leaving the byte mode of a Csexp parser off.
initNoByteMode(q) == q

\* p.init(): a Csexp parser starts in byte mode.
init(q) == IF ~q.f.unicodeStream THEN [q EXCEPT !.bytemode = (@ + 1) % 256] ELSE q

\* Format.NewParser: the zero Parser of format f, initialised.
NewParser(f) ==
  init([ f |-> f, state |-> "pstateDrifting", s |-> <<>>, b |-> <<>>,
         xL |-> U64Zero, i |-> U64Zero, neg |-> FALSE, lenhint |-> FALSE,
         sub |-> FALSE, bytemode |-> 0, reissue |-> 0, tokens |-> <<>>,
         stack |-> <<>>, depth |-> 0, eof |-> FALSE, b64dec |-> "nil",
         sublexing |-> FALSE,
         subb64 |-> [dec |-> "nil", err |-> Nil] ])

\* newWriteDecoder(sink): a fresh decoder, no error recorded.
newWriteDecoder == [dec |-> "fresh", err |-> Nil]

isTokenStartChar(r) ==
  \/ (r >= Chr.uA /\ r <= Chr.uZ) \/ r = Chr.under \/ (r >= Chr.la /\ r <= Chr.lz)
  \/ r = Chr.dot \/ r = Chr.slash \/ r = Chr.colon
  \/ r = Chr.star \/ r = Chr.plus \/ r = Chr.eq \/ r = Chr.minus

IsDigit(r) == r >= Chr.d0 /\ r <= Chr.d9

isTokenChar(r) == isTokenStartChar(r) \/ IsDigit(r)

\* dechex: the value of a hex digit and whether r is one.  The letters run
\* to 'z' and 'Z' in the source.
dechex(r) ==
  IF IsDigit(r) THEN [v |-> r - Chr.d0, ok |-> TRUE]
  ELSE IF r >= Chr.la /\ r <= Chr.lz THEN [v |-> r - Chr.la + 10, ok |-> TRUE]
  ELSE IF r >= Chr.uA /\ r <= Chr.uZ THEN [v |-> r - Chr.uA + 10, ok |-> TRUE]
  ELSE [v |-> 0, ok |-> FALSE]

decoct(r) ==
  IF r >= Chr.d0 /\ r <= Chr.d7 THEN [v |-> r - Chr.d0, ok |-> TRUE]
  ELSE [v |-> 0, ok |-> FALSE]

\* p.push(tok) with the value appended to the outermost list.
pushOutermost(q, tok) ==
  IF q.stack = <<>> THEN [q EXCEPT !.tokens = Append(@, tok)]
  ELSE [q EXCEPT !.stack[1] = Append(@, tok)]

\* p.push(tok).
push(q, tok) == [q EXCEPT !.tokens = Append(@, tok)]

\* What one pass through the switch of write leaves: the parser, the cursor,
\* and, when the pass returned from write, the values returned.
Cont(q, i) == [p |-> q, i |-> i, done |-> FALSE, n |-> 0, err |-> Nil]
Return(q, n, err) == [p |-> q, i |-> n, done |-> TRUE, n |-> n, err |-> err]

\* The thresholds of integer narrowing.
x80000000 == <<0, 2 ^ 15, 0, 0>>
x7FFFFFFF == <<2 ^ 16 - 1, 2 ^ 15 - 1, 0, 0>>

\* return w, w being what the call returned.
Returned(w) == Return(w.p, w.n, w.err)

RECURSIVE Write(_, _)
RECURSIVE write(_, _)

\* case r == '(' with the depth test one too late (> for >=).
listOpenOneTooLate(q, i) ==
  IF q.depth > q.f.maxListDepth THEN Return(q, i, ErrDepthLimitExceeded)
  ELSE Cont([q EXCEPT !.depth = @ + 1, !.stack = Append(@, q.tokens),
                      !.tokens = <<>>], i)

\* case r == '(' of pstateDrifting.
listOpen(q, i) ==
  IF q.depth >= q.f.maxListDepth THEN Return(q, i, ErrDepthLimitExceeded)
  ELSE Cont([q EXCEPT !.depth = @ + 1, !.stack = Append(@, q.tokens),
                      !.tokens = <<>>], i)

\* case r == ')' with the closed list not appended to its parent.
listCloseDropsList(q, i) ==
  IF q.depth = 0 THEN Return(q, i, ErrListEnd)
  ELSE Cont([q EXCEPT !.depth = @ - 1,
                      !.stack = SubSeq(@, 1, Len(@) - 1),
                      !.tokens = q.stack[Len(q.stack)]], i)

\* case r == ')' of pstateDrifting.
listClose(q, i) ==
  IF q.depth = 0 THEN Return(q, i, ErrListEnd)
  ELSE LET ptok == q.stack[Len(q.stack)]
       IN  Cont([q EXCEPT !.depth = @ - 1,
                          !.stack = SubSeq(@, 1, Len(@) - 1),
                          !.tokens = Append(ptok, VList(q.tokens))], i)

\* case pstateDrifting.
pstateDrifting(q, b, i, r) ==
  IF q.eof THEN Return(q, i, Nil)
  ELSE IF IsSpace(r) THEN Cont(q, i)
  ELSE IF IsDigit(r) /\ q.f.allowIntegers THEN
    Cont([q EXCEPT !.state = "pstateInteger", !.reissue = @ + 1], i)
  ELSE IF r = Chr.minus /\ q.f.allowIntegers THEN
    Cont([q EXCEPT !.state = "pstateNegIntegerStart"], i)
  ELSE IF r = Chr.lparen /\ q.f.allowLists THEN
    listOpen(q, i)
  ELSE IF r = Chr.rparen /\ q.f.allowLists THEN
    listClose(q, i)
  ELSE IF r = Chr.quote /\ q.f.allowQuotedString THEN
    Cont([q EXCEPT !.state = "pstateQuotedString"], i)
  ELSE IF r = Chr.pipe /\ q.f.allowBase64BinaryString THEN
    Cont([q EXCEPT !.state = "pstateBase64String", !.b64dec = "fresh"], i)
  ELSE IF r = Chr.lbrace /\ q.f.allowVerbatimBase64BinaryString /\ ~q.sublexing THEN
    Returned(Write([q EXCEPT !.sublexing = TRUE, !.subb64 = newWriteDecoder],
                   SliceFrom(b, i)))
  ELSE IF q.f.allowTokens /\ isTokenStartChar(r) THEN
    Cont([q EXCEPT !.state = "pstateToken", !.reissue = @ + 1], i)
  ELSE IF q.f.allowHexBinaryString /\ r = Chr.hash THEN
    Cont([q EXCEPT !.state = "pstateHexString"], i)
  ELSE Return(q, i, InvalidToken(r))

\* case pstateToken.
pstateToken(q, i, r) ==
  IF ~isTokenChar(r) THEN
    Cont(push([q EXCEPT !.reissue = @ + 1, !.state = "pstateDrifting",
                        !.s = <<>>], VString(q.s)), i)
  ELSE Cont([q EXCEPT !.s = @ \o RuneString(r)], i)

\* case pstateNegIntegerStart with the rune behind the '-' of a token not
\* reissued.
pstateNegIntegerStartDropsRune(q, i, r) ==
  IF IsDigit(r) THEN
    Cont([q EXCEPT !.state = "pstateInteger", !.neg = TRUE, !.reissue = @ + 1], i)
  ELSE
    Cont([q EXCEPT !.state = "pstateToken", !.s = <<Chr.minus>>], i)

\* case pstateNegIntegerStart.
pstateNegIntegerStart(q, i, r) ==
  IF IsDigit(r) THEN
    Cont([q EXCEPT !.state = "pstateInteger", !.neg = TRUE, !.reissue = @ + 1], i)
  ELSE
    Cont([q EXCEPT !.state = "pstateToken", !.s = <<Chr.minus>>,
                   !.reissue = @ + 1], i)

\* The narrowing with a large non-negative value converted to int64.
NarrowToInt64(neg, i) ==
  IF neg THEN
    IF U64Leq(i, x80000000) THEN VInt(U64Neg(i)) ELSE VInt64(U64Neg(i))
  ELSE
    IF U64Leq(i, x7FFFFFFF) THEN VInt(i) ELSE VInt64(i)

\* The value an integer is pushed as (the default case of pstateInteger).
Narrow(neg, i) ==
  IF neg THEN
    IF U64Leq(i, x80000000) THEN VInt(U64Neg(i)) ELSE VInt64(U64Neg(i))
  ELSE
    IF U64Leq(i, x7FFFFFFF) THEN VInt(i) ELSE VUint64(i)

\* case pstateInteger.
pstateInteger(q, i, r) ==
  IF IsDigit(r) THEN Cont([q EXCEPT !.i = MulAdd10(@, r - Chr.d0)], i)
  ELSE IF r = Chr.quote /\ q.f.allowQuotedString /\ ~q.neg THEN
    Cont([q EXCEPT !.xL = q.i, !.i = U64Zero,
                   !.state = "pstateLengthQuotedString"], i)
  ELSE IF r = Chr.hash /\ q.f.allowHexBinaryString /\ ~q.neg THEN
    Cont([q EXCEPT !.xL = q.i, !.i = U64Zero, !.state = "pstateHexString",
                   !.lenhint = TRUE], i)
  ELSE IF r = Chr.pipe /\ q.f.allowBase64BinaryString /\ ~q.neg THEN
    Cont([q EXCEPT !.xL = q.i, !.i = U64Zero, !.state = "pstateBase64String",
                   !.lenhint = TRUE], i)
  ELSE IF r = Chr.colon /\ q.f.allowVerbatimBinaryString /\ ~q.neg THEN
    Cont([q EXCEPT !.xL = q.i, !.i = U64Zero,
                   !.state = "pstateLengthByteString", !.lenhint = TRUE,
                   !.bytemode = (@ + 1) % 256], i)
  ELSE
    Cont(push([q EXCEPT !.i = U64Zero, !.neg = FALSE, !.reissue = @ + 1,
                        !.state = "pstateDrifting"], Narrow(q.neg, q.i)), i)

\* case pstateLengthByteString with the rune appended as a string (its
\* UTF-8 encoding) instead of as one octet.
pstateLengthByteStringAsRunes(q, i, r) ==
  IF q.xL = U64Zero THEN
    Cont(push([q EXCEPT !.bytemode = (@ + 255) % 256,
                        !.state = "pstateDrifting", !.b = <<>>,
                        !.reissue = @ + 1], VBytes(q.b)), i)
  ELSE Cont([q EXCEPT !.b = @ \o RuneString(r), !.xL = U64Dec(@)], i)

\* case pstateLengthByteString.
pstateLengthByteString(q, i, r) ==
  IF q.xL = U64Zero THEN
    Cont(push([q EXCEPT !.bytemode = (@ + 255) % 256,
                        !.state = "pstateDrifting", !.b = <<>>,
                        !.reissue = @ + 1], VBytes(q.b)), i)
  ELSE Cont([q EXCEPT !.b = Append(@, r % 256), !.xL = U64Dec(@)], i)

\* case pstateLengthQuotedString.
pstateLengthQuotedString(q, i, r) ==
  IF q.xL = U64Zero THEN
    Cont(push([q EXCEPT !.state = "pstateDrifting", !.s = <<>>], VString(q.s)), i)
  ELSE Cont([q EXCEPT !.s = @ \o RuneString(r), !.xL = U64Dec(@)], i)

\* case pstateQuotedString.
pstateQuotedString(q, i, r) ==
  IF r = Chr.quote THEN
    Cont(push([q EXCEPT !.state = "pstateDrifting", !.s = <<>>], VString(q.s)), i)
  ELSE IF r = Chr.bslash THEN Cont([q EXCEPT !.state = "pstateQuotedStringEscape"], i)
  ELSE Cont([q EXCEPT !.s = @ \o RuneString(r)], i)

\* The octet of a one-letter escape (a b f n r t v), or -1.
EscapeOctet(r) ==
  IF r = Chr.la THEN 7
  ELSE IF r = Chr.lb THEN 8
  ELSE IF r = Chr.lf_ THEN 12
  ELSE IF r = Chr.ln THEN 10
  ELSE IF r = Chr.lr THEN 13
  ELSE IF r = Chr.lt THEN 9
  ELSE IF r = Chr.lv THEN 11
  ELSE -1

\* case pstateQuotedStringEscape.
pstateQuotedStringEscape(q, i, r) ==
  LET q1 == [q EXCEPT !.state = "pstateQuotedString"] IN
  IF EscapeOctet(r) >= 0 THEN Cont([q1 EXCEPT !.s = Append(@, EscapeOctet(r))], i)
  ELSE IF r = Chr.cr THEN Cont([q1 EXCEPT !.state = "pstateQuotedStringEscapeLF"], i)
  ELSE IF r = Chr.lf THEN Cont([q1 EXCEPT !.state = "pstateQuotedStringEscapeCR"], i)
  ELSE IF r = Chr.lx THEN Cont([q1 EXCEPT !.state = "pstateQuotedStringHexEscape"], i)
  ELSE IF r >= Chr.d0 /\ r <= Chr.d7 THEN
    Cont([q1 EXCEPT !.state = "pstateQuotedStringOctalEscape", !.i = U64Zero,
                    !.reissue = @ + 1], i)
  ELSE Cont([q1 EXCEPT !.s = @ \o RuneString(r)], i)

\* case pstateQuotedStringHexEscape.
pstateQuotedStringHexEscape(q, i, r) ==
  LET h == dechex(r) IN
  IF ~h.ok THEN Return(q, i, InvalidToken(r))
  ELSE Cont([q EXCEPT !.i = U64(h.v), !.state = "pstateQuotedStringHexEscape2"], i)

\* case pstateQuotedStringHexEscape2.
pstateQuotedStringHexEscape2(q, i, r) ==
  LET h == dechex(r) IN
  IF ~h.ok THEN Return(q, i, InvalidToken(r))
  ELSE Cont([q EXCEPT !.s = Append(@, BitOr((q.i[1] * 16) % 256, h.v)),
                      !.state = "pstateQuotedString", !.i = U64Zero], i)

\* case pstateQuotedStringOctalEscape, ...Escape2, ...Escape3.
pstateQuotedStringOctalEscape(q, i, r) ==
  LET o == decoct(r)
      v == BitOr((q.i[1] * 8) % 256, o.v)
  IN  IF ~o.ok THEN Return(q, i, InvalidToken(r))
      ELSE IF q.state = "pstateQuotedStringOctalEscape3" THEN
        Cont([q EXCEPT !.state = "pstateQuotedString", !.s = Append(@, v),
                       !.i = U64Zero], i)
      ELSE Cont([q EXCEPT !.i = U64(v),
                          !.state = IF @ = "pstateQuotedStringOctalEscape"
                                    THEN "pstateQuotedStringOctalEscape2"
                                    ELSE "pstateQuotedStringOctalEscape3"], i)

\* case pstateQuotedStringEscapeLF.
pstateQuotedStringEscapeLF(q, i, r) ==
  Cont([q EXCEPT !.reissue = IF r # Chr.lf THEN @ + 1 ELSE @,
                 !.state = "pstateQuotedString"], i)

\* case pstateQuotedStringEscapeCR.
pstateQuotedStringEscapeCR(q, i, r) ==
  Cont([q EXCEPT !.reissue = IF r = Chr.cr THEN @ + 1 ELSE @,
                 !.state = "pstateQuotedString"], i)

\* ioutil.ReadAll(p.b64dec), the reader holding data: the octets read.  A
\* decoder that has been read to its first error returns nothing more.
ReadAll(dec, data) == IF dec = "fresh" THEN DecodeStream(data).out ELSE <<>>

\* The end of case pstateBase64String, q1 holding what was decoded: at the
\* closing '|' (idx >= 0) the length hint is checked and the string pushed.
base64Finish(q1, idx, i2, r) ==
  IF idx >= 0 THEN
    IF q1.lenhint /\ U64(Len(q1.s)) # q1.xL THEN Return(q1, i2, InvalidToken(r))
    ELSE Cont(push([q1 EXCEPT !.state = "pstateDrifting", !.s = <<>>],
                   VString(q1.s)), i2)
  ELSE Cont(q1, i2)

\* case pstateBase64String, idx being the offset of the next '|' from the
\* rune just read.
base64Read(q, b, i, r, idx) ==
  IF q.b64dec = "nil" THEN Return(q, i, NilDereference)
  ELSE base64Finish(
         [q EXCEPT !.s = @ \o ReadAll(q.b64dec,
                                      IF idx < 0 THEN SliceFrom(b, i - 1)
                                      ELSE Slice(b, i - 1, i - 1 + idx)),
                   !.b64dec = "dead"],
         idx, IF idx < 0 THEN Len(b) ELSE i + idx, r)

\* case pstateBase64String.
pstateBase64String(q, b, i, r) ==
  base64Read(q, b, i, r, IndexByte(SliceFrom(b, i - 1), Chr.pipe))

\* case pstateHexString.
pstateHexString(q, i, r) ==
  IF r = Chr.hash THEN
    IF q.lenhint /\ U64(Len(q.b)) # q.xL THEN Return(q, i, InvalidToken(r))
    ELSE Cont(push([q EXCEPT !.state = "pstateDrifting", !.b = <<>>,
                             !.i = U64Zero, !.lenhint = FALSE], VBytes(q.b)), i)
  ELSE IF IsSpace(r) THEN Cont(q, i)
  ELSE LET h == dechex(r) IN
       IF ~h.ok THEN Return(q, i, InvalidToken(r))
       ELSE Cont([q EXCEPT !.i = U64(h.v), !.state = "pstateHexStringOdd"], i)

\* case pstateHexStringOdd.
pstateHexStringOdd(q, i, r) ==
  IF IsSpace(r) THEN Cont(q, i)
  ELSE LET h == dechex(r) IN
       IF ~h.ok THEN Return(q, i, InvalidToken(r))
       ELSE Cont([q EXCEPT !.b = Append(@, BitOr((q.i[1] * 16) % 256, h.v)),
                           !.state = "pstateHexString"], i)

\* switch p.state: one pass on rune r, the cursor standing at i.
Switch(q, b, i, r) ==
  CASE q.state = "pstateDrifting" -> pstateDrifting(q, b, i, r)
    [] q.state = "pstateToken" -> pstateToken(q, i, r)
    [] q.state = "pstateNegIntegerStart" -> pstateNegIntegerStart(q, i, r)
    [] q.state = "pstateInteger" -> pstateInteger(q, i, r)
    [] q.state = "pstateLengthByteString" -> pstateLengthByteString(q, i, r)
    [] q.state = "pstateLengthQuotedString" -> pstateLengthQuotedString(q, i, r)
    [] q.state = "pstateQuotedString" -> pstateQuotedString(q, i, r)
    [] q.state = "pstateQuotedStringEscape" -> pstateQuotedStringEscape(q, i, r)
    [] q.state = "pstateQuotedStringHexEscape" -> pstateQuotedStringHexEscape(q, i, r)
    [] q.state = "pstateQuotedStringHexEscape2" -> pstateQuotedStringHexEscape2(q, i, r)
    [] q.state \in {"pstateQuotedStringOctalEscape", "pstateQuotedStringOctalEscape2",
                    "pstateQuotedStringOctalEscape3"} ->
         pstateQuotedStringOctalEscape(q, i, r)
    [] q.state = "pstateQuotedStringEscapeLF" -> pstateQuotedStringEscapeLF(q, i, r)
    [] q.state = "pstateQuotedStringEscapeCR" -> pstateQuotedStringEscapeCR(q, i, r)
    [] q.state = "pstateBase64String" -> pstateBase64String(q, b, i, r)
    [] q.state = "pstateHexString" -> pstateHexString(q, i, r)
    [] q.state = "pstateHexStringOdd" -> pstateHexStringOdd(q, i, r)

\* The rune fetch with a pending reissue left pending.
FetchKeepsReissue(q, b, i, r) ==
  IF q.reissue > 0 THEN [p |-> q, i |-> i, r |-> r, stop |-> FALSE]
  ELSE IF i >= Len(b) THEN [p |-> q, i |-> i, r |-> r, stop |-> TRUE]
  ELSE IF q.bytemode # 0 THEN [p |-> q, i |-> i + 1, r |-> b[i + 1], stop |-> FALSE]
  ELSE LET d == DecodeRune(SliceFrom(b, i))
       IN  [p |-> q, i |-> i + d.sz, r |-> d.r, stop |-> FALSE]

\* The rune fetch at the top of the loop of write: with a reissue pending the
\* rune r is kept and the cursor stays; otherwise one octet (byte mode) or
\* one UTF-8 sequence is read.  stop: the input is exhausted.
Fetch(q, b, i, r) ==
  IF q.reissue > 0 THEN
    [p |-> [q EXCEPT !.reissue = @ - 1], i |-> i, r |-> r, stop |-> FALSE]
  ELSE IF i >= Len(b) THEN [p |-> q, i |-> i, r |-> r, stop |-> TRUE]
  ELSE IF q.bytemode # 0 THEN [p |-> q, i |-> i + 1, r |-> b[i + 1], stop |-> FALSE]
  ELSE LET d == DecodeRune(SliceFrom(b, i))
       IN  [p |-> q, i |-> i + d.sz, r |-> d.r, stop |-> FALSE]

\* The state of the loop of write: the parser, the cursor i, the rune r last
\* read and, once write has returned, done with the values n and err
\* returned.
LoopState(q, i, r, done, n, err) ==
  [p |-> q, i |-> i, r |-> r, done |-> done, n |-> n, err |-> err]

\* The loop after the switch has run on rune r.
Switched(s, r) == LoopState(s.p, s.i, r, s.done, s.n, s.err)

\* The loop after the rune fetch f.
Fetched(f, b) ==
  IF f.stop THEN LoopState(f.p, f.i, f.r, TRUE, Len(b), Nil)
  ELSE Switched(Switch(f.p, b, f.i, f.r), f.r)

\* One pass of the for loop of write; a pass after the return changes
\* nothing.
Pass(st, b) == IF st.done THEN st ELSE Fetched(Fetch(st.p, b, st.i, st.r), b)

RECURSIVE Passes(_, _, _)
\* n passes of the loop in a row, split in halves so that the depth of the
\* evaluation grows with the logarithm of n.
Passes(st, b, n) ==
  IF st.done \/ n = 0 THEN st
  ELSE IF n = 1 THEN Pass(st, b)
  ELSE Passes(Passes(st, b, n \div 2), b, n - (n \div 2))

\* The loop of write ends within this many passes: a pass either reads at
\* least one octet or uses up a reissue, no octet is reissued more than
\* three times, and one more pass finds the input exhausted.
PassLimit(b) == 4 * Len(b) + 4

\* What a call returns: the parser left, the count and the error.
Result(q, n, err) == [p |-> q, n |-> n, err |-> err]

LoopResult(st) ==
  Result(st.p, st.n, IF st.done THEN st.err ELSE [e |-> "write did not return", r |-> 0])

\* Parser.write(b).
write(q, b) == LoopResult(Passes(LoopState(q, 0, 0, FALSE, 0, Nil), b, PassLimit(b)))

\* The error io.Copy returns: the sink's error w.err, a short write, or the
\* decoder's error d unless that is EOF.
copyError(w, len, d) ==
  IF w.err # Nil THEN w.err
  ELSE IF w.n # len THEN ErrShortWrite
  ELSE IF d = EOF THEN Nil
  ELSE d

\* The return of writeDecoder.Write, e being what io.Copy returned.
copyReturn(w, e, lenb) ==
  IF e # Nil THEN Result([w.p EXCEPT !.subb64.err = e], w.n, e)
  ELSE Result(w.p, lenb, Nil)

\* io.Copy(wd.sink, wd.b64dec), w being what the sink returned for the
\* octets d.out decoded.
copied(w, d, lenb) == copyReturn(w, copyError(w, Len(d.out), d.err), lenb)

\* The decoder read to its first error, then the sink p.write called with
\* what was decoded.
copy(q, d, lenb) ==
  copied(IF Len(d.out) > 0 THEN write(q, d.out) ELSE Result(q, 0, Nil), d, lenb)

\* writeDecoder.Write(b), the sink being p.write.  A decoder that has been
\* read to its first error returns nothing more.
writeDecoderWrite(q, b) ==
  IF q.subb64.err # Nil THEN Result(q, 0, q.subb64.err)
  ELSE IF q.subb64.dec # "fresh" THEN Result(q, Len(b), Nil)
  ELSE copy([q EXCEPT !.subb64.dec = "dead"], DecodeStream(b), Len(b))

\* The sum of the counts of the two writes of the sublexing branch of Write.
addCount(n, w2) == Result(w2.p, n + w2.n, w2.err)

\* Parser.Write past the '}' with p.sublexing left set.
writeRestStaysSublexing(w1, b, idx) ==
  IF w1.err # Nil THEN w1
  ELSE addCount(w1.n, write(w1.p, SliceFrom(b, idx + 1)))

\* Parser.Write past the '}' at offset idx, w1 being what the decoder's
\* Write returned.
writeRest(w1, b, idx) ==
  IF w1.err # Nil THEN w1
  ELSE addCount(w1.n, write([w1.p EXCEPT !.sublexing = FALSE], SliceFrom(b, idx + 1)))

\* The sublexing branch of Parser.Write, idx being the offset of '}'.
writeSublexing(q, b, idx) ==
  IF idx < 0 THEN writeDecoderWrite(q, b)
  ELSE writeRest(writeDecoderWrite(q, Slice(b, 0, idx)), b, idx)

\* Parser.Write(b).
Write(q, b) ==
  IF q.sublexing THEN writeSublexing(q, b, IndexByte(b, Chr.rbrace)) ELSE write(q, b)

\* Parser.Close().
Close(q) == Write([q EXCEPT !.eof = TRUE], <<Chr.nul>>)

\* Parser.Tokens().
Tokens(q) == q.tokens

\* What Format.Parse returns: the parser it used, the values and the error.
ParseResult(q, tokens, err) == [p |-> q, tokens |-> tokens, err |-> err]

\* Format.Parse after Close returned c.
parseClosed(c) ==
  IF c.err # Nil THEN ParseResult(c.p, <<>>, c.err)
  ELSE ParseResult(c.p, Tokens(c.p), Nil)

\* Format.Parse after Write returned w.
parseWritten(w) ==
  IF w.err # Nil THEN ParseResult(w.p, <<>>, w.err) ELSE parseClosed(Close(w.p))

\* Format.Parse(b).
Parse(f, b) == parseWritten(Write(NewParser(f), b))

----------------------------------------------------------------------------
(* Canonical serializer                                                    *)

IsIntType(t) == t \in {"int", "int64", "uint64"}

\* spacer.write(b, t): the octets written before an atom of type t when the
\* spacer's prevType is prev.
spacerWrite(prev) == IF prev = "i" THEN <<Chr.sp>> ELSE <<>>

\* The rendering of one atom (the string, []byte, int, int64 and uint64
\* cases of writeList), the spacer's prevType being prev.
writeAtom(v, prev) ==
  IF v.t = "string" \/ v.t = "[]byte"
  THEN FormatUint(U64(Len(v.v))) \o <<Chr.colon>> \o v.v
  ELSE IF v.t = "uint64" THEN spacerWrite(prev) \o FormatUint(v.v)
  ELSE spacerWrite(prev) \o FormatInt(v.v)

\* The spacer's prevType after a value of type t has been written: only the
\* integer cases call spacer.write, which sets it.
spacerNext(v, prev) == IF IsIntType(v.t) THEN "i" ELSE prev

\* What the serializer has written, and its error.
Written(o, err) == [out |-> o, err |-> err]

\* The case []interface{} of writeList, inner being what the nested
\* writeList wrote.
writeNested(inner) ==
  IF inner.err # Nil THEN Written(<<Chr.lparen>> \o inner.out, inner.err)
  ELSE Written(<<Chr.lparen>> \o inner.out \o <<Chr.rparen>>, Nil)

\* The loop of writeList after element head, t being the rest.
writeJoin(head, t) == Written(head.out \o t.out, t.err)

RECURSIVE writeItems(_, _, _)
RECURSIVE writeItem(_, _)
RECURSIVE writeFrom(_, _, _, _)

\* The type switch of writeList on value v, prevType being prev.
writeItem(v, prev) ==
  IF v.t \in {"string", "[]byte", "int", "int64", "uint64"}
  THEN Written(writeAtom(v, prev), Nil)
  ELSE IF v.t = "[]interface{}" THEN writeNested(writeItems(v.c, 1, ""))
  ELSE Written(<<>>, ErrUnsupportedType)

\* The loop of writeList after element k wrote head.
writeFrom(head, vs, k, prev) ==
  IF head.err # Nil THEN head
  ELSE writeJoin(head, writeItems(vs, k + 1, spacerNext(vs[k], prev)))

\* The loop of writeList over vs from element k on, prevType being prev:
\* the octets written and the error.
writeItems(vs, k, prev) ==
  IF k > Len(vs) THEN Written(<<>>, Nil)
  ELSE writeFrom(writeItem(vs[k], prev), vs, k, prev)

\* writeList(vs, b, f): what reaches the buffer, and the error.
writeList(vs) == writeItems(vs, 1, "")

\* Format.String returning what was written along with the error.
stringOfPartial(w) == [s |-> w.out, err |-> w.err]

\* Format.String(vs): the string and the error returned.
stringOf(w) ==
  IF w.err # Nil THEN [s |-> <<>>, err |-> w.err] ELSE [s |-> w.out, err |-> Nil]

FormatString(vs) == stringOf(writeList(vs))

----------------------------------------------------------------------------
(* Queries: Hhy, Q1bhy, Q1bhyt, Q1bsyt                                     *)

\* What a query returns: a nil slice, a slice (empty or not), or a panic.
NilList == [nil |-> TRUE, v |-> <<>>, panic |-> ""]
List(v) == [nil |-> FALSE, v |-> v, panic |-> ""]
Panic(msg) == [nil |-> FALSE, v |-> <<>>, panic |-> msg]

\* Hhy(v, s): v is a non-empty list whose first element is the string s.
Hhy(v, s) ==
  /\ v.t = "[]interface{}"
  /\ Len(v.c) > 0
  /\ v.c[1].t = "string"
  /\ v.c[1].v = s

RECURSIVE Q1bhyFrom(_, _, _)
\* The loop of Q1bhy from element k of xs on.
Q1bhyFrom(xs, s, k) ==
  IF k > Len(xs) THEN NilList
  ELSE IF Hhy(xs[k], s) THEN List(xs[k].c)
  ELSE Q1bhyFrom(xs, s, k + 1)

\* Q1bhy(xs, s).
Q1bhy(xs, s) == Q1bhyFrom(xs, s, 1)

\* The tail of v, what Q1bhy returned.
tailOf(v) == IF Len(v.v) = 0 THEN v ELSE List(Tail(v.v))

\* Q1bhyt returning the matched list with its head.
Q1bhytKeepsHead(xs, s) == Q1bhy(xs, s)

\* Q1bhyt(xs, s).
Q1bhyt(xs, s) == tailOf(Q1bhy(xs, s))

RECURSIVE selectFrom(_, _, _)
RECURSIVE selectNext(_, _, _)

\* The loop of Q1bsyt after element k of the selector gave cur.
selectNext(cur, selvs, k) ==
  IF cur.nil THEN NilList ELSE selectFrom(cur, selvs, k + 1)

\* The loop of Q1bsyt from element k of the selector on, cur being the
\* list reached.
selectFrom(cur, selvs, k) ==
  IF k > Len(selvs) THEN cur
  ELSE IF selvs[k].t # "string" THEN Panic("non-string element in selector")
  ELSE selectNext(Q1bhyt(cur.v, selvs[k].v), selvs, k)

\* Q1bsyt after SX.Parse returned r for the selector.
selectParsed(xs, r) ==
  IF r.err # Nil THEN Panic("bad selector") ELSE selectFrom(List(xs), r.tokens, 1)

\* Q1bsyt(xs, sel).
Q1bsyt(xs, sel) == selectParsed(xs, Parse(SX, sel))

----------------------------------------------------------------------------
(* The inputs fed to the parser                                            *)

\* Bounds of the model.
MaxLen == 3
MaxChunk == 2
MaxOctets == 2
MaxWs == 1

\* All sequences over S of length at most n.
SeqsUpTo(S, n) == UNION {[1..k -> S] : k \in 0..n}

\* Short inputs: every sequence of at most MaxLen of these octets.
Alphabet ==
  {Chr.lparen, Chr.rparen, Chr.d0 + 1, Chr.minus, Chr.la, Chr.sp, Chr.quote,
   Chr.lbrace}

ShortInputs == SeqsUpTo(Alphabet, MaxLen)

\* The octets of a decimal literal given by its digits.
Lit(ds) == [k \in 1..Len(ds) |-> Chr.d0 + ds[k]]
Neg(ds) == <<Chr.minus>> \o Lit(ds)

\* Decimal literals at and around the limits of int32, int64 and uint64.
Pow31 == <<2, 1, 4, 7, 4, 8, 3, 6, 4, 8>>
Pow31m1 == <<2, 1, 4, 7, 4, 8, 3, 6, 4, 7>>
Pow31p1 == <<2, 1, 4, 7, 4, 8, 3, 6, 4, 9>>
Pow32 == <<4, 2, 9, 4, 9, 6, 7, 2, 9, 6>>
Pow63 == <<9, 2, 2, 3, 3, 7, 2, 0, 3, 6, 8, 5, 4, 7, 7, 5, 8, 0, 8>>
Pow63m1 == <<9, 2, 2, 3, 3, 7, 2, 0, 3, 6, 8, 5, 4, 7, 7, 5, 8, 0, 7>>
Pow64m1 == <<1, 8, 4, 4, 6, 7, 4, 4, 0, 7, 3, 7, 0, 9, 5, 5, 1, 6, 1, 5>>

\* The magnitudes of the literals fed, each within [0, 2^64-1].
Magnitudes ==
  {<<0>>, <<1>>, <<4, 2>>, <<9, 9, 9, 9, 9, 9, 9, 9, 9, 9>>,
   Pow31m1, Pow31, Pow31p1, Pow32, Pow63m1, Pow63, Pow64m1}

\* The literals of [-2^63, 2^64-1] fed: no leading zeros, '-' exactly for a
\* negative value.
IntLiterals ==
  {Lit(m) : m \in Magnitudes}
    \cup {Neg(m) : m \in (Magnitudes \ {<<0>>, Pow64m1})}

\* The octets a verbatim string is filled with: NUL, 0xFF and the delimiters.
Octets ==
  {Chr.nul, 255, Chr.lparen, Chr.rparen, Chr.quote, Chr.pipe, Chr.hash,
   Chr.rbrace, Chr.sp, Chr.lf}

\* "N:" followed by N octets, N <= MaxOctets.
NetString(x) == FormatUint(U64(Len(x))) \o <<Chr.colon>> \o x
NetStrings == {NetString(x) : x \in SeqsUpTo(Octets, MaxOctets)}

\* Hex and base64 atoms: #0aF1#, 2#0a0b#, |YXA=|, |YQ==|, {MTph} ("1:a").
Envelopes ==
  { <<35, 48, 97, 70, 49, 35>>,
    <<50, 35, 48, 97, 48, 98, 35>>,
    <<124, 89, 88, 65, 61, 124>>,
    <<124, 89, 81, 61, 61, 124>>,
    <<123, 77, 84, 112, 104, 125>> }

\* The offset of the opening delimiter of an envelope (a length hint may
\* precede it).
OpenAt(x) == CHOOSE k \in 1..Len(x) :
  /\ x[k] \in {Chr.hash, Chr.pipe, Chr.lbrace}
  /\ \A j \in 1..(k - 1) : x[j] \notin {Chr.hash, Chr.pipe, Chr.lbrace}

Whitespace == {Chr.sp, Chr.tab, Chr.cr, Chr.lf}

\* x with w inserted after its first k octets.
Insert(x, k, w) == SubSeq(x, 1, k) \o <<w>> \o SubSeq(x, k + 1, Len(x))

RECURSIVE WithWs(_, _)
\* The envelopes x with at most n whitespace octets inserted between the
\* delimiters.
WithWs(x, n) ==
  IF n = 0 THEN {x}
  ELSE LET less == WithWs(x, n - 1) IN
       less \cup {Insert(y, k, w) : y \in less, k \in OpenAt(x)..(Len(x) - 1),
                                    w \in Whitespace}

SpacedEnvelopes == UNION {WithWs(x, MaxWs) : x \in Envelopes}

\* maxListDepth open parentheses, then one more, then a close.
DeepInputs ==
  {[k \in 1..(SX.maxListDepth + 2) |->
      IF k <= SX.maxListDepth + 1 THEN Chr.lparen ELSE Chr.rparen]}

\* Inputs of the package's own tests, and inputs with a line continuation,
\* a length-hinted quoted string and a value after a base64 string, none of
\* which the alphabet above reaches.
Corpus ==
  { <<40, 52, 50, 32, 49, 48, 53, 32, 45, 49, 50, 41>>,
    <<53, 58, 104, 0, 255, 66, 111>>,
    <<123, 77, 106, 112, 104, 89, 103, 61, 61, 125>>,
    <<116, 104, 101, 32, 101, 108, 118, 101, 115>>,
    <<45, 116, 111, 107, 101, 110>>,
    <<53, 35, 48, 48, 48, 49, 48, 50, 48, 51, 97, 102, 35>>,
    <<34, 97, 112, 112, 92, 116, 102, 111, 111, 34>>,
    <<34, 97, 112, 112, 92, 120, 101, 101, 97, 101, 34>>,
    <<34, 97, 112, 112, 92, 51, 55, 55, 97, 101, 34>>,
    <<34, 97, 92, 13, 10, 98, 34>>,
    <<34, 97, 92, 10, 98, 34>>,
    <<51, 34, 97, 195, 169, 98, 34>>,
    <<124, 89, 88, 66, 119, 124, 32, 40, 97, 41>> }


MaxHint == 2

\* Hex and base64 atoms with the octets they encode: ##, #0a#, #0a0B#, ||,
\* |YQ==| ("a"), |YXA=| ("ap").
Encoded ==
  { [src |-> <<35, 35>>, val |-> <<>>],
    [src |-> <<35, 48, 97, 35>>, val |-> <<10>>],
    [src |-> <<35, 48, 97, 48, 66, 35>>, val |-> <<10, 11>>],
    [src |-> <<124, 124>>, val |-> <<>>],
    [src |-> <<124, 89, 81, 61, 61, 124>>, val |-> <<97>>],
    [src |-> <<124, 89, 88, 65, 61, 124>>, val |-> <<97, 112>>] }

\* The atom e behind the length hint n.
Hinted(n, e) == FormatUint(U64(n)) \o e.src

\* Length-hinted atoms N#...# and N|...|, the hint right and wrong.
HintedAtoms == {Hinted(n, e) : n \in 0..MaxHint, e \in Encoded}


\* Atoms with a length prefix, to go before an atom without one: 1:a and
\* 2#0a0B#.
Prefixed == {<<49, 58, 97>>, <<50, 35, 48, 97, 48, 66, 35>>}

\* A hex or base64 atom without a length hint, behind an atom with a length
\* prefix.
AfterPrefixed == {pre \o e.src : pre \in Prefixed, e \in Encoded}


\* The line endings a backslash may stand before: CR, LF, CR LF, LF CR.
LineEndings == {<<Chr.cr>>, <<Chr.lf>>, <<Chr.cr, Chr.lf>>, <<Chr.lf, Chr.cr>>}

\* "a\<line ending>b": a quoted string with one line continuation.
Continued(le) ==
  <<Chr.quote, Chr.la, Chr.bslash>> \o le \o <<Chr.lb, Chr.quote>>

Continuations == {Continued(le) : le \in LineEndings}


\* Runes tried as nibbles: the hex digits 0, 9, a, f, A, F, and g, z, G, '-'
\* which are none.
NibbleRunes == {48, 57, 97, 102, 65, 70, 103, 122, 71, 45}

\* #hl# and "\xhl" for two runes h and l, and #h# with a single digit.
HexAtom(h, l) == <<Chr.hash, h, l, Chr.hash>>
HexEscape(h, l) == <<Chr.quote, Chr.bslash, Chr.lx, h, l, Chr.quote>>
OddHexAtom(h) == <<Chr.hash, h, Chr.hash>>

NibbleInputs ==
  {HexAtom(h, l) : h \in NibbleRunes, l \in NibbleRunes}
    \cup {HexEscape(h, l) : h \in NibbleRunes, l \in NibbleRunes}
    \cup {OddHexAtom(h) : h \in NibbleRunes}


\* Envelopes whose decoded octets hold a '{': {ew==} ("{"), {MXs=} ("1{"),
\* {e01UcGh9} ("{MTph}") and {KGEpe01UcGh9} ("(a){MTph}").
NestedEnvelopes ==
  { <<123, 101, 119, 61, 61, 125>>,
    <<123, 77, 88, 115, 61, 125>>,
    <<123, 101, 48, 49, 85, 99, 71, 104, 57, 125>>,
    <<123, 75, 71, 69, 112, 101, 48, 49, 85, 99, 71, 104, 57, 125>> }

\* One envelope behind another, with the values they hold: {MTph}{MTph}
\* ("1:a" twice) and {MQ==}{Mg==} ("1", "2").
EnvelopePairs ==
  { [src |-> <<123, 77, 84, 112, 104, 125, 123, 77, 84, 112, 104, 125>>,
     val |-> <<VBytes(<<Chr.la>>), VBytes(<<Chr.la>>)>>],
    [src |-> <<123, 77, 81, 61, 61, 125, 123, 77, 103, 61, 61, 125>>,
     val |-> <<VInt(U64(1)), VInt(U64(2))>>] }

EnvelopeInputs == NestedEnvelopes \cup {e.src : e \in EnvelopePairs}


\* What stands before an envelope, leaving the parser in pstateDrifting:
\* nothing, "(" and "a ".
Before == {<<>>, <<Chr.lparen>>, <<Chr.la, Chr.sp>>}

\* What stands behind an envelope: nothing, "1", "b", ")", ":b", the last
\* octet of U+00E9 with a quote, and a space.
Behind ==
  {<<>>, <<49>>, <<98>>, <<Chr.rparen>>, <<Chr.colon, 98>>, <<169, Chr.quote>>,
   <<Chr.sp>>}

\* Octet strings y without '{' and their base64 text: "", "1", "a", "1:a",
\* "(a)", ")", "#0a#", "|YQ==|", and a quote, a and the first octet of
\* U+00E9.
Wrapped ==
  { [y |-> <<>>, b64 |-> <<>>],
    [y |-> <<49>>, b64 |-> <<77, 81, 61, 61>>],
    [y |-> <<97>>, b64 |-> <<89, 81, 61, 61>>],
    [y |-> <<49, 58, 97>>, b64 |-> <<77, 84, 112, 104>>],
    [y |-> <<40, 97, 41>>, b64 |-> <<75, 71, 69, 112>>],
    [y |-> <<41>>, b64 |-> <<75, 81, 61, 61>>],
    [y |-> <<35, 48, 97, 35>>, b64 |-> <<73, 122, 66, 104, 73, 119, 61, 61>>],
    [y |-> <<124, 89, 81, 61, 61, 124>>, b64 |-> <<102, 70, 108, 82, 80, 84, 49, 56>>],
    [y |-> <<34, 97, 195>>, b64 |-> <<73, 109, 72, 68>>] }

\* x{base64(y)}z and xyz.
Enveloped(x, w, z) == x \o <<Chr.lbrace>> \o w.b64 \o <<Chr.rbrace>> \o z
Plain(x, w, z) == x \o w.y \o z

EnvelopedInputs ==
  {Enveloped(x, w, z) : x \in Before, w \in Wrapped, z \in Behind}

Inputs ==
  ShortInputs \cup IntLiterals \cup NetStrings \cup SpacedEnvelopes
    \cup DeepInputs \cup Corpus
    \cup HintedAtoms
    \cup AfterPrefixed
    \cup Continuations
    \cup NibbleInputs
    \cup EnvelopeInputs
    \cup EnvelopedInputs

----------------------------------------------------------------------------
(* The interface: Parser.Write, Parser.Close, Format.Parse, Format.String  *)

NoReturn == [n |-> 0, err |-> Nil, v |-> <<>>]
NoString == [s |-> <<>>, err |-> Nil]

\* What a call of Parser.write returns to: Parser.Write (sx.go:180, 183) or,
\* with sink set, io.Copy in writeDecoder.Write, which then holds the length
\* lenb of the encoded text and the decoder's error derr; tail: a '}' was
\* found and restb, the octets behind it, are still to be written; base: the
\* count the calls before have returned.
Frame(sink, base, lenb, derr, tail, restb) ==
  [sink |-> sink, base |-> base, lenb |-> lenb, derr |-> derr, tail |-> tail,
   restb |-> restb]

\* The call of Parser.write in progress: its position pc ("for": at the top
\* of the loop, "Write": at the call p.Write(b[i:]) of the '{' case,
\* "return": at a return statement with the values n and err), the buffer
\* b, the cursor i, the rune r, the frame fr it returns to, and of the last
\* pass: the octets the fetch took, whether it used up a reissue, and the
\* number d of passes the rune r has been through the switch.
Activation(pc, b, i, r, n, err, fr, took, reissued, d) ==
  [pc |-> pc, b |-> b, i |-> i, r |-> r, n |-> n, err |-> err, fr |-> fr,
   took |-> took, reissued |-> reissued, d |-> d]

\* No call of Parser.write is in progress.
NoLoop ==
  Activation("idle", <<>>, 0, 0, 0, Nil, Frame(FALSE, 0, 0, Nil, FALSE, <<>>),
             0, FALSE, 0)

Init ==
  /\ input \in Inputs
  /\ \E f \in Formats : p = NewParser(f)
  /\ rest = input
  /\ call = [op |-> "NewParser", b |-> <<>>]
  /\ ret = NoReturn
  /\ tree = <<>>
  /\ out = NoString
  /\ back = NoReturn
  /\ found = NilList
  /\ loop = NoLoop

\* The call returned w: the parser is left as w.p, the caller holds the
\* count and the error.
Returns(w, v) ==
  /\ p' = w.p
  /\ ret' = [n |-> w.n, err |-> w.err, v |-> v]

\* Format.Parse returned r.
Parsed(r) ==
  /\ p' = r.p
  /\ ret' = [n |-> 0, err |-> r.err, v |-> r.tokens]

Reparsed(r) == back' = [n |-> 0, err |-> r.err, v |-> r.tokens]

\* p.Write(b), b being the next k octets of the input.  A caller stops at
\* the first error.
ParserWrite(k) ==
  /\ call.op \in {"NewParser", "Write"}
  /\ ret.err = Nil
  /\ k <= Len(rest)
  /\ Returns(Write(p, SubSeq(rest, 1, k)), <<>>)
  /\ call' = [op |-> "Write", b |-> SubSeq(rest, 1, k)]
  /\ rest' = SubSeq(rest, k + 1, Len(rest))
  /\ UNCHANGED <<input, tree, out, back, found, loop>>

\* p.Close(), once the whole input has been written.
ParserClose ==
  /\ call.op \in {"NewParser", "Write"}
  /\ ret.err = Nil
  /\ rest = <<>>
  /\ Returns(Close(p), <<>>)
  /\ call' = [op |-> "Close", b |-> <<>>]
  /\ UNCHANGED <<input, rest, tree, out, back, found, loop>>

\* f.Parse(input) on a parser of its own: one Write of the whole input, then
\* Close.
FormatParse ==
  /\ call.op = "NewParser"
  /\ Parsed(Parse(p.f, input))
  /\ call' = [op |-> "Parse", b |-> input]
  /\ rest' = <<>>
  /\ UNCHANGED <<input, tree, out, back, found, loop>>

\* f.String(vs), vs being the values the parser returned.
StringTokens ==
  /\ call.op \in {"Close", "Parse"}
  /\ ret.err = Nil
  /\ tree' = Tokens(p)
  /\ out' = FormatString(Tokens(p))
  /\ call' = [op |-> "String", b |-> <<>>]
  /\ UNCHANGED <<p, input, rest, ret, back, found, loop>>

\* f.Parse(s), s being the string f.String returned.
Reparse ==
  /\ call.op = "String"
  /\ out.err = Nil
  /\ Reparsed(Parse(p.f, out.s))
  /\ call' = [op |-> "Reparse", b |-> out.s]
  /\ UNCHANGED <<p, input, rest, ret, tree, out, found, loop>>

Next ==
  \/ \E k \in 1..MaxChunk : ParserWrite(k)
  \/ ParserClose
  \/ FormatParse
  \/ StringTokens
  \/ Reparse

Spec == Init /\ [][Next]_vars

----------------------------------------------------------------------------
(* The serializer on trees a caller builds                                 *)

MaxItems == 3

\* The values a tree is built of: integers of the three types, a string, a
\* byte atom, lists, and a value of a type the serializer does not support.
Items ==
  { VInt(U64(1)), VInt64(U64Neg(U64(7))), VUint64(<<0, 0, 1, 0>>),
    VString(<<Chr.la>>), VBytes(<<Chr.rparen>>),
    VList(<<>>), VList(<<VInt(U64(1)), VInt(U64(2))>>), VOther,
    VList(<<VString(<<Chr.lb>>), VList(<<VOther>>)>>) }

Trees == SeqsUpTo(Items, MaxItems)

InitString ==
  /\ tree \in Trees
  /\ \E f \in Formats : p = NewParser(f)
  /\ input = <<>>
  /\ rest = <<>>
  /\ call = [op |-> "Tree", b |-> <<>>]
  /\ ret = NoReturn
  /\ out = NoString
  /\ back = NoReturn
  /\ found = NilList
  /\ loop = NoLoop

\* f.String(tree).
StringTree ==
  /\ call.op = "Tree"
  /\ out' = FormatString(tree)
  /\ call' = [op |-> "String", b |-> <<>>]
  /\ UNCHANGED <<p, input, rest, ret, tree, back, found, loop>>

NextString ==
  \/ StringTree
  \/ Reparse

SpecString == InitString /\ [][NextString]_vars

----------------------------------------------------------------------------
(* The queries on trees a caller builds                                    *)

MaxChildren == 2
MaxSel == 3

\* The children of a queried list: (b), (b (y q)), a list headed by the
\* []byte b, the string b itself, (y 1) and ().
QItems ==
  { VList(<<VString(<<Chr.lb>>)>>),
    VList(<<VString(<<Chr.lb>>),
            VList(<<VString(<<Chr.ly>>), VString(<<Chr.lq>>)>>)>>),
    VList(<<VBytes(<<Chr.lb>>), VList(<<VString(<<Chr.ly>>)>>)>>),
    VString(<<Chr.lb>>),
    VList(<<VString(<<Chr.ly>>), VInt(U64(1))>>),
    VList(<<>>) }

QueryTrees == SeqsUpTo(QItems, MaxChildren)

\* The head symbols asked for.
Heads == {<<Chr.lb>>, <<Chr.ly>>}

\* Selectors of symbols: the symbols b and y and spaces.
SymbolSelectors == SeqsUpTo({Chr.lb, Chr.ly, Chr.sp}, MaxSel)

\* Selectors that are no sequence of symbols: an integer, and a text that
\* does not parse.
BadSelectors == {<<Chr.d0 + 1>>, <<Chr.rparen>>}

InitQuery ==
  /\ tree \in QueryTrees
  /\ input \in SymbolSelectors \cup BadSelectors
  /\ p = NewParser(SX)
  /\ rest = <<>>
  /\ call = [op |-> "Tree", b |-> <<>>]
  /\ ret = NoReturn
  /\ out = NoString
  /\ back = NoReturn
  /\ found = NilList
  /\ loop = NoLoop

\* Q1bhy(tree, s).
QueryHead(s) ==
  /\ call.op = "Tree"
  /\ found' = Q1bhy(tree, s)
  /\ call' = [op |-> "Q1bhy", b |-> s]
  /\ UNCHANGED <<p, input, rest, ret, tree, out, back, loop>>

\* Q1bhyt(tree, s).
QueryHeadTail(s) ==
  /\ call.op = "Tree"
  /\ found' = Q1bhyt(tree, s)
  /\ call' = [op |-> "Q1bhyt", b |-> s]
  /\ UNCHANGED <<p, input, rest, ret, tree, out, back, loop>>

\* Q1bsyt(tree, input).
QuerySelector ==
  /\ call.op = "Tree"
  /\ found' = Q1bsyt(tree, input)
  /\ call' = [op |-> "Q1bsyt", b |-> input]
  /\ UNCHANGED <<p, input, rest, ret, tree, out, back, loop>>

NextQuery ==
  \/ \E s \in Heads : QueryHead(s)
  \/ \E s \in Heads : QueryHeadTail(s)
  \/ QuerySelector

SpecQuery == InitQuery /\ [][NextQuery]_vars

----------------------------------------------------------------------------
(* Parser.Write pass by pass                                               *)

\* The parser q and the call of write in progress l; with no call in
\* progress, the values n and err Parser.Write has returned.
Running(q, l, n, err) == [p |-> q, loop |-> l, n |-> n, err |-> err]

\* Parser.Write returns n, err.
Done(q, n, err) == Running(q, NoLoop, n, err)

\* p.write(b) is called from frame fr: the cursor at 0, no rune read.
Begin(q, b, fr) ==
  Running(q, Activation("for", b, 0, 0, 0, Nil, fr, 0, FALSE, 0), 0, Nil)

\* Parser.Write once p.subb64.Write has returned c: the error returned, or
\* p.sublexing cleared and p.write called on the octets behind the '}'.
AfterDecoder(c, fr) ==
  IF c.err # Nil THEN Done(c.p, fr.base + c.n, c.err)
  ELSE IF ~fr.tail THEN Done(c.p, fr.base + c.n, Nil)
  ELSE Begin([c.p EXCEPT !.sublexing = FALSE], fr.restb,
             Frame(FALSE, fr.base + c.n, 0, Nil, FALSE, <<>>))

\* io.Copy once the decoder has been read to its first error: the sink
\* p.write is called with the octets decoded, if there are any.
Decoded(q, d, lenb, fr) ==
  IF Len(d.out) > 0
  THEN Begin(q, d.out, [fr EXCEPT !.sink = TRUE, !.lenb = lenb, !.derr = d.err])
  ELSE AfterDecoder(copied(Result(q, 0, Nil), d, lenb), fr)

\* writeDecoder.Write(enc) up to the call of the sink.
DecoderWrite(q, enc, fr) ==
  IF q.subb64.err # Nil THEN AfterDecoder(Result(q, 0, q.subb64.err), fr)
  ELSE IF q.subb64.dec # "fresh" THEN AfterDecoder(Result(q, Len(enc), Nil), fr)
  ELSE Decoded([q EXCEPT !.subb64.dec = "dead"], DecodeStream(enc), Len(enc), fr)

\* The sublexing branch of Parser.Write up to the call of the sink, idx being
\* the offset of '}'.
EnterSublexing(q, b, idx, base) ==
  IF idx < 0 THEN DecoderWrite(q, b, Frame(FALSE, base, 0, Nil, FALSE, <<>>))
  ELSE DecoderWrite(q, Slice(b, 0, idx),
                    Frame(FALSE, base, 0, Nil, TRUE, SliceFrom(b, idx + 1)))

\* Parser.Write(b) up to the first call of p.write, or to its return when
\* there is none.
Enter(q, b, base) ==
  IF q.sublexing THEN EnterSublexing(q, b, IndexByte(b, Chr.rbrace), base)
  ELSE Begin(q, b, Frame(FALSE, base, 0, Nil, FALSE, <<>>))

\* The '{' case of pstateDrifting is the one the rune r takes.
OpensEnvelope(q, r) ==
  /\ q.state = "pstateDrifting" /\ ~q.eof
  /\ r = Chr.lbrace /\ q.f.allowVerbatimBase64BinaryString /\ ~q.sublexing

\* The pass after the switch has returned s for the rune fetched by f.
Dispatched(l, f, s, reissued) ==
  Running(s.p,
          Activation(IF s.done THEN "return" ELSE "for", l.b, s.i, f.r, s.n, s.err,
                     l.fr, f.i - l.i, reissued, IF reissued THEN l.d + 1 ELSE 1),
          0, Nil)

\* The pass at the '{' case: p.sublexing set, a new decoder, and the call
\* p.Write(b[i:]) next.
Opened(l, f, reissued) ==
  Running([f.p EXCEPT !.sublexing = TRUE, !.subb64 = newWriteDecoder],
          Activation("Write", l.b, f.i, f.r, 0, Nil, l.fr, f.i - l.i, reissued,
                     IF reissued THEN l.d + 1 ELSE 1),
          0, Nil)

\* The switch on the rune fetched by f.  At the break there is none, and
\* the '{' case is followed on its own (Opened).
Switching(f, b) ==
  IF f.stop \/ OpensEnvelope(f.p, f.r) THEN Cont(f.p, f.i)
  ELSE Switch(f.p, b, f.i, f.r)

\* One pass of the loop of write, f being what the rune fetch gave and s
\* what the switch gave: the break at the end of the buffer, the '{' case,
\* or any other case of the switch.
Passed(l, f, s, reissued) ==
  IF f.stop THEN
    Running(f.p, [l EXCEPT !.pc = "return", !.n = Len(l.b), !.err = Nil,
                           !.took = 0, !.reissued = FALSE], 0, Nil)
  ELSE IF OpensEnvelope(f.p, f.r) THEN Opened(l, f, reissued)
  ELSE Dispatched(l, f, s, reissued)

\* p.write returns l.n, l.err to its frame: to io.Copy, and from there to
\* Parser.Write, or to Parser.Write at once.
Unwound(q, l) ==
  IF l.fr.sink
  THEN AfterDecoder(copied(Result(q, l.n, l.err), [out |-> l.b, err |-> l.fr.derr],
                           l.fr.lenb), l.fr)
  ELSE Done(q, l.fr.base + l.n, l.err)

\* The step leaves the parser and the call in progress as m says.
Runs(m) ==
  /\ p' = m.p
  /\ loop' = m.loop
  /\ ret' = IF m.loop.pc = "idle" THEN [n |-> m.n, err |-> m.err, v |-> <<>>] ELSE ret

\* p.Write(b) is called, b being the next k octets of the input.
Called(k) ==
  /\ \E m \in {Enter(p, SubSeq(rest, 1, k), 0)} : Runs(m)
  /\ call' = [op |-> "Write", b |-> SubSeq(rest, 1, k)]
  /\ rest' = SubSeq(rest, k + 1, Len(rest))
  /\ UNCHANGED <<input, tree, out, back, found>>

\* The caller calls p.Write(b) with the next k octets of the input: a chunk,
\* or the whole input as Format.Parse writes it.  No call has failed.
LoopWrite(k) ==
  /\ loop.pc = "idle"
  /\ call.op # "Close"
  /\ ret.err = Nil
  /\ k <= Len(rest)
  /\ Called(k)

\* p.Close() is called.
CloseCalled ==
  /\ \E m \in {Enter([p EXCEPT !.eof = TRUE], <<Chr.nul>>, 0)} : Runs(m)
  /\ call' = [op |-> "Close", b |-> <<>>]
  /\ UNCHANGED <<input, rest, tree, out, back, found>>

\* The caller calls p.Close() once the whole input has been written.
LoopClose ==
  /\ loop.pc = "idle"
  /\ call.op # "Close"
  /\ ret.err = Nil
  /\ rest = <<>>
  /\ CloseCalled

\* The caller goes on with the next k octets after a call that failed.
LoopWriteOn(k) ==
  /\ loop.pc = "idle"
  /\ call.op # "Close"
  /\ ret.err # Nil
  /\ k <= Len(rest)
  /\ Called(k)

\* The caller calls p.Close() before the end of the input, or after a call
\* that failed.
LoopCloseEarly ==
  /\ loop.pc = "idle"
  /\ call.op # "Close"
  /\ (ret.err # Nil \/ rest # <<>>)
  /\ CloseCalled

\* The caller calls p.Write(b) after Close, with all that is left of the
\* input.
LoopWriteClosed ==
  /\ loop.pc = "idle"
  /\ call.op = "Close"
  /\ rest # <<>>
  /\ Called(Len(rest))

\* One pass of the for loop of write.
LoopPass ==
  /\ loop.pc = "for"
  /\ \E f \in {Fetch(p, loop.b, loop.i, loop.r)} :
       \E s \in {Switching(f, loop.b)} :
         \E m \in {Passed(loop, f, s, p.reissue > 0)} : Runs(m)
  /\ UNCHANGED <<input, rest, call, tree, out, back, found>>

\* return p.Write(b[i:]) of the '{' case: the call.
LoopEnvelope ==
  /\ loop.pc = "Write"
  /\ \E m \in {Enter(p, SliceFrom(loop.b, loop.i), loop.fr.base)} : Runs(m)
  /\ UNCHANGED <<input, rest, call, tree, out, back, found>>

\* A return statement of write.
LoopReturn ==
  /\ loop.pc = "return"
  /\ \E m \in {Unwound(p, loop)} : Runs(m)
  /\ UNCHANGED <<input, rest, call, tree, out, back, found>>

NextLoop ==
  \/ \E k \in 1..MaxChunk : LoopWrite(k)
  \/ LoopWrite(Len(input))
  \/ LoopClose
  \/ LoopPass
  \/ LoopEnvelope
  \/ LoopReturn

\* The inputs followed pass by pass: every state of the parser and every
\* path by which a rune is reissued occurs in them.
LoopInputs ==
  ShortInputs \cup IntLiterals \cup Corpus \cup HintedAtoms \cup AfterPrefixed
    \cup Continuations \cup EnvelopeInputs \cup DeepInputs

InitLoop ==
  /\ input \in LoopInputs
  /\ \E f \in Formats : p = NewParser(f)
  /\ rest = input
  /\ call = [op |-> "NewParser", b |-> <<>>]
  /\ ret = NoReturn
  /\ tree = <<>>
  /\ out = NoString
  /\ back = NoReturn
  /\ found = NilList
  /\ loop = NoLoop

\* The goroutine that called Write or Close keeps running until the call
\* returns.
SpecLoop ==
  /\ InitLoop
  /\ [][NextLoop]_vars
  /\ WF_vars(LoopPass \/ LoopEnvelope \/ LoopReturn)

\* Any sequence of calls: the caller of SpecLoop, who also goes on after a
\* failed call, closes early, and writes after Close.
NextAny ==
  \/ NextLoop
  \/ \E k \in 1..MaxChunk : LoopWriteOn(k)
  \/ LoopCloseEarly
  \/ LoopWriteClosed

SpecLoopAny == InitLoop /\ [][NextAny]_vars

----------------------------------------------------------------------------
(* Properties                                                              *)

\* Close, or Format.Parse, has returned without error.
Closed == call.op \in {"Close", "Parse"} /\ ret.err = Nil

\* C1: once every Write and Close have returned without error, Tokens() is
\* the depth-0 list of the input: no list is still open, nothing is left on
\* the stack, and no integer or bare token is left unflushed.
C1_TokensIsTopLevel ==
  Closed =>
    /\ p.depth = 0
    /\ p.stack = <<>>
    /\ p.state \notin {"pstateInteger", "pstateNegIntegerStart", "pstateToken"}

\* The call made in this step is a Write of the single octet c, reached with
\* the parser in pstateDrifting and not inside a {...} envelope.
DriftingReads(c) ==
  /\ call'.op = "Write"
  /\ call'.b = <<c>>
  /\ rest # rest'
  /\ p.state = "pstateDrifting"
  /\ ~p.sublexing

\* C2: a '(' read in pstateDrifting with maxListDepth lists open fails with
\* ErrDepthLimitExceeded and leaves depth, stack and tokens as they were;
\* with fewer lists open it succeeds and opens one more.
C2_DepthLimitAtFirstExcess ==
  [][DriftingReads(Chr.lparen) =>
       IF p.depth = p.f.maxListDepth
       THEN /\ ret'.err = ErrDepthLimitExceeded
            /\ p'.depth = p.depth
            /\ p'.stack = p.stack
            /\ p'.tokens = p.tokens
       ELSE /\ p.depth < p.f.maxListDepth
            /\ ret'.err = Nil
            /\ p'.depth = p.depth + 1
            /\ p'.stack = Append(p.stack, p.tokens)
            /\ p'.tokens = <<>>]_vars

\* The 256th '(' in a row has just failed, the 255 before it are open.
C2_Witness ==
  /\ call.op = "Write"
  /\ call.b = <<Chr.lparen>>
  /\ ret.err = ErrDepthLimitExceeded
  /\ p.depth = p.f.maxListDepth
  /\ Len(p.stack) = p.f.maxListDepth

\* C3: a ')' read in pstateDrifting with no list open fails with ErrListEnd
\* and leaves depth, stack and tokens as they were; with a list open it pops
\* one stack entry and the closed list becomes the last child of the popped
\* parent, which is the current list again.
C3_ListEndPopsOne ==
  [][DriftingReads(Chr.rparen) =>
       IF p.depth = 0
       THEN /\ ret'.err = ErrListEnd
            /\ p'.depth = p.depth
            /\ p'.stack = p.stack
            /\ p'.tokens = p.tokens
       ELSE /\ ret'.err = Nil
            /\ p'.depth = p.depth - 1
            /\ Len(p.stack) > 0
            /\ p'.stack = SubSeq(p.stack, 1, Len(p.stack) - 1)
            /\ p'.tokens = Append(p.stack[Len(p.stack)], VList(p.tokens))]_vars

\* A ')' has closed a list with a child, behind an earlier value of its
\* parent.
C3_Witness ==
  /\ call.op = "Write"
  /\ call.b = <<Chr.rparen>>
  /\ ret.err = Nil
  /\ p.depth = 0
  /\ Len(p.tokens) = 2
  /\ p.tokens[2].t = "[]interface{}"
  /\ Len(p.tokens[2].c) = 1

\* C4: for a tree produced by Parse, Parse(String(tree)) succeeds and yields
\* the tree again: same values, same types, same nesting.
C4_ReparseYieldsTree ==
  call.op = "Reparse" => (back.err = Nil /\ back.v = tree)

\* The decimal rendering of an integer value.
Rendering(v) == IF v.t = "uint64" THEN FormatUint(v.v) ELSE FormatInt(v.v)

RECURSIVE AtomsOf(_)
\* A tree without the Go types of its atoms: an integer by its decimal
\* rendering, a string or byte atom by its octets, a list by its elements.
AtomsOf(vs) ==
  [k \in 1..Len(vs) |->
     IF vs[k].t = "[]interface{}" THEN [list |-> AtomsOf(vs[k].c)]
     ELSE IF IsIntType(vs[k].t) THEN [integer |-> Rendering(vs[k])]
     ELSE [octets |-> vs[k].v]]

\* C5: the output of String is self-delimiting: parsing String(tree) gives
\* the atoms and nesting of tree, and String of that is String(tree) again.
C5_SelfDelimiting ==
  call.op = "Reparse" =>
    /\ back.err = Nil
    /\ AtomsOf(back.v) = AtomsOf(tree)
    /\ FormatString(back.v) = out

RECURSIVE SpacedByRule(_, _)
\* The rendering of the list vs from element k on by the stated rule: one
\* space before an integer exactly when the element right before it in the
\* same list is an integer.
SpacedByRule(vs, k) ==
  IF k > Len(vs) THEN <<>>
  ELSE (IF vs[k].t = "[]interface{}"
          THEN <<Chr.lparen>> \o SpacedByRule(vs[k].c, 1) \o <<Chr.rparen>>
        ELSE IF IsIntType(vs[k].t)
          THEN (IF k > 1 /\ IsIntType(vs[k - 1].t) THEN <<Chr.sp>> ELSE <<>>)
                 \o Rendering(vs[k])
        ELSE FormatUint(U64(Len(vs[k].v))) \o <<Chr.colon>> \o vs[k].v)
       \o SpacedByRule(vs, k + 1)

\* C6: String writes a space before an integer if and only if the element
\* right before it in the same list is an integer.
C6_SpaceOnlyBetweenIntegers ==
  (call.op \in {"String", "Reparse"} /\ out.err = Nil) =>
    out.s = SpacedByRule(tree, 1)

\* a <= b for two decimal literals without leading zeros.
RECURSIVE DigitsLeq(_, _)
DigitsLeq(a, b) ==
  IF Len(a) # Len(b) THEN Len(a) < Len(b)
  ELSE IF a = <<>> THEN TRUE
  ELSE IF a[1] # b[1] THEN a[1] < b[1]
  ELSE DigitsLeq(Tail(a), Tail(b))

\* The type the narrowest-fit rule gives the literal x: int within
\* [-2^31, 2^31-1], else int64 within [-2^63, 2^63-1], else uint64.
NarrowestType(x) ==
  IF x[1] = Chr.minus
  THEN IF DigitsLeq(Tail(x), Lit(Pow31)) THEN "int" ELSE "int64"
  ELSE IF DigitsLeq(x, Lit(Pow31m1)) THEN "int"
  ELSE IF DigitsLeq(x, Lit(Pow63m1)) THEN "int64"
  ELSE "uint64"

\* C7: a decimal integer is pushed with the narrowest type that holds it:
\* int, else int64 (non-negative values up to 2^63-1 included), else uint64.
C7_NarrowestVariant ==
  (Closed /\ input \in IntLiterals) =>
    /\ Len(Tokens(p)) = 1
    /\ Tokens(p)[1].t = NarrowestType(input)

\* C8: for a decimal literal x of [-2^63, 2^64-1] without leading zeros,
\* String(Parse(x)) is x, whatever the type the value was narrowed to and
\* however x was fed.
C8_IntegerRendersIdentically ==
  (input \in IntLiterals) =>
    /\ ret.err = Nil
    /\ call.op \in {"String", "Reparse"} => (out.err = Nil /\ out.s = input)

\* -2^63 has been parsed as an int64 and rendered.
C8_Witness ==
  /\ input = Neg(Pow63)
  /\ call.op = "String"
  /\ tree = <<VInt64(<<0, 0, 0, 2 ^ 15>>)>>
  /\ out.s = input

\* The octets of a verbatim string after its "N:".
Payload(x) == SliceFrom(x, IndexByte(x, Chr.colon) + 1)

Unspaced(x) == SelectSeq(x, LAMBDA c : c \notin Whitespace)

\* The error and the values Format.Parse returns.
Outcome(r) == [err |-> r.err, v |-> r.tokens]

\* The first octet of x that is not a digit: the opening delimiter of an
\* envelope.
Opener(x) == x[OpenAt(x)]

C11_LengthHintChecked ==
  \A n \in 0..MaxHint, e \in Encoded :
    (input = Hinted(n, e) /\ call.op = "Parse") =>
      IF Len(e.val) = n
      THEN /\ ret.err = Nil
           /\ Len(ret.v) = 1
           /\ ret.v[1].v = e.val
      ELSE /\ ret.err.e = "invalid token"
           /\ ret.v = <<>>

RECURSIVE HasUnsupported(_)
\* The tree vs holds, at some depth, a value that is not a string, a []byte,
\* an int, an int64, a uint64 or a list.
HasUnsupported(vs) ==
  \E k \in 1..Len(vs) :
    IF vs[k].t = "[]interface{}" THEN HasUnsupported(vs[k].c)
    ELSE vs[k].t \notin {"string", "[]byte", "int", "int64", "uint64"}

\* C12: String of a tree holding a value of an unsupported type at any depth
\* returns ErrUnsupportedType and the empty string; String of any other tree
\* returns no error.
C12_UnsupportedType ==
  call.op \in {"String", "Reparse"} =>
    IF HasUnsupported(tree)
    THEN out = [s |-> <<>>, err |-> ErrUnsupportedType]
    ELSE out.err = Nil

\* String has failed on a tree whose unsupported value lies two lists deep,
\* behind an integer and a string already written.
C12_Witness ==
  /\ call.op = "String"
  /\ tree = <<VInt(U64(1)), VList(<<VString(<<Chr.lb>>), VList(<<VOther>>)>>)>>
  /\ out = [s |-> <<>>, err |-> ErrUnsupportedType]

\* The lowest-index child of xs that is a non-empty list headed by the
\* string s, or nil.
FirstByHead(xs, s) ==
  LET ks == {k \in 1..Len(xs) :
               /\ xs[k].t = "[]interface{}"
               /\ xs[k].c # <<>>
               /\ xs[k].c[1] = VString(s)}
  IN  IF ks = {} THEN NilList
      ELSE List(xs[CHOOSE k \in ks : \A j \in ks : k <= j].c)

RECURSIVE SymbolsOf(_)
\* The symbols of a selector of symbols and spaces, left to right.
SymbolsOf(sel) ==
  IF sel = <<>> THEN <<>>
  ELSE IF sel[1] = Chr.sp THEN SymbolsOf(Tail(sel))
  ELSE LET n == CHOOSE n \in 1..Len(sel) :
                  /\ \A k \in 1..n : sel[k] # Chr.sp
                  /\ (n = Len(sel) \/ sel[n + 1] = Chr.sp)
       IN  <<SubSeq(sel, 1, n)>> \o SymbolsOf(SubSeq(sel, n + 1, Len(sel)))

RECURSIVE BySymbols(_, _)
\* One step per symbol, from the list cur: the first child headed by the
\* symbol, minus its head; nil as soon as a step finds none.
BySymbols(cur, syms) ==
  IF syms = <<>> THEN cur
  ELSE LET m == FirstByHead(cur.v, syms[1])
       IN  IF m.nil THEN NilList ELSE BySymbols(List(Tail(m.v)), Tail(syms))

\* C13: Q1bhy returns the lowest-index child that is a non-empty list headed
\* by the string s, or nil; Q1bsyt is one Q1bhyt step per symbol of the
\* selector, left to right from xs, and nil as soon as a step finds no match.
C13_QueryBySelector ==
  /\ call.op = "Q1bhy" => found = FirstByHead(tree, call.b)
  /\ (call.op = "Q1bsyt" /\ input \in SymbolSelectors) =>
       found = BySymbols(List(tree), SymbolsOf(input))

\* The selector "b y" has found (q) in a tree whose first child is
\* (b (y q)).
C13_Witness ==
  /\ call.op = "Q1bsyt"
  /\ input = <<Chr.lb, Chr.sp, Chr.ly>>
  /\ Len(tree) > 0
  /\ tree[1] = VList(<<VString(<<Chr.lb>>),
                       VList(<<VString(<<Chr.ly>>), VString(<<Chr.lq>>)>>)>>)
  /\ found = List(<<VString(<<Chr.lq>>)>>)

\* C14: a |...| or #...# atom written without a length hint is accepted
\* whatever its decoded length and whatever length-prefixed atom was parsed
\* before it by the same parser.
C14_NoHintNoCheck ==
  \A pre \in Prefixed, e \in Encoded :
    (input = pre \o e.src /\ call.op = "Parse") =>
      /\ ret.err = Nil
      /\ Len(ret.v) = 2
      /\ ret.v[2].v = e.val

\* C15: in a quoted string a backslash before CR, LF, CR LF or LF CR is one
\* line continuation: the whole line ending is consumed, nothing is appended
\* for it, and the rune behind it is string content.
C15_LineContinuation ==
  (input \in Continuations /\ call.op = "Parse") =>
    /\ ret.err = Nil
    /\ ret.v = <<VString(<<Chr.la, Chr.lb>>)>>

\* The value of a hex digit 0-9, a-f, A-F; -1 for any other rune.
HexDigit(r) ==
  IF r \in 48..57 THEN r - 48
  ELSE IF r \in 97..102 THEN r - 87
  ELSE IF r \in 65..70 THEN r - 55
  ELSE -1

\* What parsing two nibble runes h and l must give: the value 16*h + l
\* wrapped by mk, or an invalid-token error if either is no hex digit.
NibblesGive(h, l, mk(_)) ==
  IF HexDigit(h) >= 0 /\ HexDigit(l) >= 0
  THEN ret.err = Nil /\ ret.v = <<mk(<<16 * HexDigit(h) + HexDigit(l)>>)>>
  ELSE ret.err.e = "invalid token" /\ ret.v = <<>>

\* C16: in a #...# atom and after \x only 0-9, a-f and A-F are nibbles, a
\* byte being 16*high + low; any other rune there, and a closing '#' after
\* an odd number of digits, is an invalid token.
C16_HexDigitsOnly ==
  call.op = "Parse" =>
    /\ \A h, l \in NibbleRunes :
         /\ input = HexAtom(h, l) => NibblesGive(h, l, VBytes)
         /\ input = HexEscape(h, l) => NibblesGive(h, l, VString)
    /\ \A h \in NibbleRunes :
         input = OddHexAtom(h) => ret.err.e = "invalid token"

\* The list at depth 0: the current list, or the bottom of the stack while
\* lists are open.
TopLevel(q) == IF q.stack = <<>> THEN q.tokens ELSE q.stack[1]

\* The runes a bare token is made of.
WordRunes ==
  (65..90) \cup (97..122) \cup (48..57) \cup {95, 46, 47, 58, 42, 43, 61, 45}

RECURSIVE Run(_, _)
\* The longest prefix of x made of runes of S.
Run(x, S) ==
  IF x = <<>> \/ x[1] \notin S THEN <<>> ELSE <<x[1]>> \o Run(Tail(x), S)

\* C17: a '-' read in pstateDrifting starts a negative integer exactly when
\* a digit follows; otherwise it starts a bare token made of the '-' and the
\* token runes behind it, none lost and none doubled.
C17_MinusIntegerOrToken ==
  (Closed /\ input \in ShortInputs \cup Corpus /\ input # <<>>
     /\ input[1] = Chr.minus) =>
    /\ Len(TopLevel(p)) >= 1
    /\ IF Len(input) >= 2 /\ input[2] \in 48..57
       THEN /\ IsIntType(TopLevel(p)[1].t)
            /\ Rendering(TopLevel(p)[1]) = <<Chr.minus>> \o Run(Tail(input), 48..57)
       ELSE TopLevel(p)[1] = VString(<<Chr.minus>> \o Run(Tail(input), WordRunes))

\* "- 1" has been written and closed: the lone '-' is a token, the space
\* behind it was read once, and the integer follows.
C17_Witness ==
  /\ input = <<Chr.minus, Chr.sp, Chr.d0 + 1>>
  /\ call.op = "Close"
  /\ ret.err = Nil
  /\ Tokens(p) = <<VString(<<Chr.minus>>), VInt(U64(1))>>

\* C18: byte mode is balanced: the bytemode counter is 1 for a Csexp parser
\* and 0 for an SX parser, plus 1 while the state is pstateLengthByteString.
\* So a Csexp parser is always in byte mode, and an SX parser exactly while
\* it is inside an N: byte string.
C18_ByteModeBalanced ==
  p.bytemode = (IF p.f.unicodeStream THEN 0 ELSE 1)
                 + (IF p.state = "pstateLengthByteString" THEN 1 ELSE 0)

\* A Csexp parser stands inside a byte string, one octet read and one to
\* come, with the counter at 2.
C18_Witness ==
  /\ p.f = Csexp
  /\ call.op = "Write"
  /\ p.state = "pstateLengthByteString"
  /\ p.xL = U64(1)
  /\ Len(p.b) = 1
  /\ p.bytemode = 2

\* C19: {...} envelopes do not nest: a '{' among the decoded octets, read in
\* pstateDrifting while the parser is sublexing, is an invalid token; a '{'
\* behind the '}' that ended an envelope starts a new envelope.
C19_EnvelopesDoNotNest ==
  call.op = "Parse" =>
    /\ input \in NestedEnvelopes => ret.err = InvalidToken(Chr.lbrace)
    /\ \A e \in EnvelopePairs :
         input = e.src => (ret.err = Nil /\ ret.v = e.val)

\* The envelope {e01UcGh9}, which decodes to {MTph}, has been refused at the
\* decoded '{', the parser still sublexing.
C19_Witness ==
  /\ input = <<123, 101, 48, 49, 85, 99, 71, 104, 57, 125>>
  /\ call.op = "Parse"
  /\ ret.err = InvalidToken(Chr.lbrace)
  /\ p.sublexing
  /\ p.tokens = <<>>

\* The values of the current list, the depth and the error Format.Parse
\* leaves.
Left(r) == [err |-> r.err, tokens |-> r.p.tokens, depth |-> r.p.depth]

\* C20: a {...} envelope is transparent: parsing x{base64(y)}z in one Write
\* and Close leaves the token list, the depth and the error that parsing xyz
\* leaves.
C20_EnvelopeTransparent ==
  \A x \in Before, w \in Wrapped, z \in Behind :
    (input = Enveloped(x, w, z) /\ call.op = "Parse") =>
      [err |-> ret.err, tokens |-> p.tokens, depth |-> p.depth]
        = Left(Parse(p.f, Plain(x, w, z)))

\* The error a run of the parser ends with and, when there is none, the
\* values it returns.
Verdict(err, tokens) ==
  [err |-> err, tokens |-> IF err = Nil THEN tokens ELSE <<>>]

\* What Write(x); Close gives for the whole input x.
Whole(r) == Verdict(r.err, r.tokens)

\* C21: parsing does not depend on how the input is split across Write
\* calls: a Write that fails fails with the error of Write(input), and
\* Close after the last Write gives the error and the values that
\* Write(input); Close gives.
C21_SplitIndependent ==
  /\ (call.op = "Write" /\ ret.err # Nil) =>
       Whole(Parse(p.f, input)).err = ret.err
  /\ (call.op = "Close") =>
       Verdict(ret.err, Tokens(p)) = Whole(Parse(p.f, input))

\* The pass about to run ends the loop at its break: no reissue is pending
\* and the buffer is exhausted.
AtBreak == p.reissue = 0 /\ loop.i >= Len(loop.b)

\* C22: every call of the loop of write terminates.  The reissue counter is
\* 0 or 1 at every point of the loop and 0 where write returns without an
\* error, and so between the calls; no rune goes through the switch more than three times; a pass
\* that does not end the loop takes an octet from the buffer or uses up a
\* pending reissue; and a call in progress comes to its return.
C22_WriteTerminates ==
  /\ [](p.reissue \in {0, 1})
  /\ []((loop.pc = "return" /\ loop.err = Nil) => p.reissue = 0)
  /\ []((loop.pc = "idle" /\ ret.err = Nil) => p.reissue = 0)
  /\ [](loop.d <= 3)
  /\ [][(loop.pc = "for" /\ ~AtBreak) => (loop'.reissued \/ loop'.took >= 1)]_vars
  /\ (loop.pc # "idle") ~> (loop.pc = "idle")

\* The '(' behind a '-' has gone through the switch three times, in
\* pstateNegIntegerStart, pstateToken and pstateDrifting: the token "-" has
\* been pushed and the list opened.
C22_Witness ==
  /\ loop.pc = "for" /\ loop.d = 3 /\ loop.r = Chr.lparen
  /\ p.reissue = 0 /\ p.depth = 1
  /\ p.stack = << <<VString(<<Chr.minus>>)>> >>

\* The step appends one value to p.tokens, the innermost open list, and
\* leaves the lists around it alone.
PushedInnermost ==
  /\ p'.stack = p.stack
  /\ Len(p'.tokens) = Len(p.tokens) + 1
  /\ SubSeq(p'.tokens, 1, Len(p.tokens)) = p.tokens

\* The step opens a list: the list being built goes on the stack as it is
\* and the new list starts empty.
ListOpened == p'.stack = Append(p.stack, p.tokens) /\ p'.tokens = <<>>

\* The step closes the innermost list: the top of the stack, with the
\* closed list as its new last value, is the list being built again.
ListClosed ==
  /\ Len(p.stack) > 0
  /\ p'.stack = SubSeq(p.stack, 1, Len(p.stack) - 1)
  /\ p'.tokens = Append(p.stack[Len(p.stack)], VList(p.tokens))

\* C23: at every point of every sequence of Write and Close calls, failed
\* calls and the octets of envelopes included, p.depth is the length of
\* p.stack and lies between 0 and maxListDepth; the stack holds the lists
\* under construction from the outermost to the parent of the innermost,
\* changing only by the opening and the closing of a list, and every value
\* pushed goes to the innermost open list.
C23_DepthIsStackLength ==
  /\ [](p.depth = Len(p.stack) /\ 0 <= p.depth /\ p.depth <= p.f.maxListDepth)
  /\ [][\/ (p'.stack = p.stack /\ p'.tokens = p.tokens)
        \/ PushedInnermost
        \/ ListOpened
        \/ ListClosed]_vars

\* The '(' beyond maxListDepth was refused, the caller went on and the ')'
\* closed the innermost of the maxListDepth lists.
C23_Witness ==
  /\ input \in DeepInputs /\ rest = <<>> /\ loop.pc = "idle"
  /\ call.op = "Write" /\ ret.err = Nil
  /\ p.depth = p.f.maxListDepth - 1 /\ Len(p.stack) = p.depth
  /\ p.tokens = <<VList(<<>>)>>

====
